---- MODULE Spec2Model ----
(***************************************************************************)
(* A model of copier.Copy (src/copier.go): the reflect-driven copy of one  *)
(* Go value into another by field name.  Go types and values are modelled  *)
(* as records (reflect.Type, reflect.Value); Copy, set, deepFields,        *)
(* indirect and indirectType are operators computed as the code computes   *)
(* them; a run of the model is one call of Copy on a destination and a     *)
(* source drawn from a catalogue of Go declarations.                       *)
(***************************************************************************)
EXTENDS Integers, Sequences, FiniteSets, TLC

\* Longest source sequence / longest initial destination sequence drawn.
MaxLen == 2

-----------------------------------------------------------------------------
(* reflect.Type.  Every type has the same record shape so that any two     *)
(* types can be compared.  k is the reflect.Kind; elem holds the element   *)
(* type of a pointer or slice; fields the struct fields; methods the       *)
(* method set; impl which of the interfaces the code asserts on a pointer  *)
(* to T implements.                                                        *)

NoImpl ==
    [ts |-> FALSE, scan |-> "", valuer |-> <<>>, str |-> <<>>]

MkType(k, name, elem, fields) ==
    [k |-> k, name |-> name, pkg |-> IF k = "struct" THEN "main" ELSE "",
     elem |-> elem, fields |-> fields,
     methods |-> <<>>, impl |-> NoImpl]

InvalidT == MkType("invalid", "", <<>>, <<>>)
Int16T   == MkType("int16", "int16", <<>>, <<>>)
Int8T   == MkType("int8", "int8", <<>>, <<>>)
StringT  == MkType("string", "string", <<>>, <<>>)
\* map[string]string
MapT     == MkType("map", "", <<>>, <<>>)
\* chan int: a type encoding/json cannot encode
ChanT    == MkType("chan", "", <<>>, <<>>)
PtrT(e)   == MkType("ptr", "", <<e>>, <<>>)
SliceT(e) == MkType("slice", "", <<e>>, <<>>)
StructT(name, fields) == MkType("struct", name, <<>>, fields)

\* reflect.StructField: Name, Type, Anonymous, and PkgPath = "" (exported).
Field(name, typ) ==
    [name |-> name, typ |-> typ, anon |-> FALSE, exported |-> TRUE]
Unexported(name, typ) ==
    [name |-> name, typ |-> typ, anon |-> FALSE, exported |-> FALSE]
Embedded(typ) ==
    [name |-> typ.name, typ |-> typ, anon |-> TRUE, exported |-> TRUE]

\* reflect.Method of the method set: in/out are the parameter and result
\* types (receiver excluded), ptrRecv a pointer receiver, ret what a call
\* returns.
Method(name, in, out, ptrRecv, ret) ==
    [name |-> name, in |-> in, out |-> out, ptrRecv |-> ptrRecv, ret |-> ret]

-----------------------------------------------------------------------------
(* reflect.Value: its type t and its payload v.  An integer is a number, a *)
(* string a string, a pointer <<>> (nil) or <<pointee>>, a                 *)
(* slice or map [nil, e], a struct the sequence of its field values.       *)

Val(t, v) == [t |-> t, v |-> v]
Invalid   == Val(InvalidT, <<>>)
IsValid(x) == x.t.k # "invalid"
Kind(x)    == x.t.k

Int16(n)  == Val(Int16T, n)
Int8(n)  == Val(Int8T, n)
Str(s)    == Val(StringT, s)
NilPtr(e) == Val(PtrT(e), <<>>)
PtrTo(x)  == Val(PtrT(x.t), <<x>>)
NilSlice(e)    == Val(SliceT(e), [nil |-> TRUE, e |-> <<>>])
Slice(e, xs)   == Val(SliceT(e), [nil |-> FALSE, e |-> xs])
NilMap         == Val(MapT, [nil |-> TRUE, e |-> <<>>])
Map(kvs)       == Val(MapT, [nil |-> FALSE, e |-> kvs])
Struct(t, fs)  == Val(t, fs)

IsNil(x) ==
    CASE Kind(x) = "ptr" -> x.v = <<>>
      [] Kind(x) \in {"slice", "map"} -> x.v.nil
      [] OTHER -> FALSE

\* reflect.Zero(t)
RECURSIVE Zero(_)
Zero(t) ==
    CASE t.k \in {"int16", "int8"} -> Val(t, 0)
      [] t.k = "string" -> Val(t, "")
      [] t.k \in {"ptr", "chan"} -> Val(t, <<>>)
      [] t.k \in {"slice", "map"} -> Val(t, [nil |-> TRUE, e |-> <<>>])
      [] t.k = "struct" ->
            Val(t, [i \in 1..Len(t.fields) |-> Zero(t.fields[i].typ)])
      [] OTHER -> Invalid

\* reflect.Value.Elem of a pointer: the pointee, or the zero Value for nil.
Elem(x) == IF x.v = <<>> THEN Invalid ELSE x.v[1]

-----------------------------------------------------------------------------
\* indirect (copier.go:153): follow pointers down to a non-pointer Value;
\* a nil pointer yields the zero (invalid) Value.
RECURSIVE indirect(_)
indirect(reflectValue) ==
    IF Kind(reflectValue) = "ptr"
    THEN indirect(Elem(reflectValue))
    ELSE reflectValue

\* CanAddr of indirect(reflect.ValueOf(x)): reflect.ValueOf is never
\* addressable, the Elem of a pointer always is.
IndirectCanAddr(x) == Kind(x) = "ptr" /\ IsValid(indirect(x))

\* The value x with the Value that indirect(x) reaches replaced by y
\* (what to.Set(y) does to the caller's data when to = indirect(x)).
RECURSIVE WithIndirect(_, _)
WithIndirect(x, y) ==
    IF Kind(x) = "ptr" /\ x.v # <<>>
    THEN Val(x.t, <<WithIndirect(x.v[1], y)>>)
    ELSE y

\* indirectType (copier.go:160): strip pointer and slice layers.
RECURSIVE indirectType(_)
indirectType(reflectType) ==
    IF reflectType.k \in {"ptr", "slice"}
    THEN indirectType(reflectType.elem[1])
    ELSE reflectType

\* deepFields (copier.go:136): the fields of a struct type in declaration
\* order, an anonymous field replaced by the deepFields of its type.
RECURSIVE deepFieldsFrom(_, _)
RECURSIVE deepFields(_)
deepFieldsFrom(structType, i) ==
    IF i > Len(structType.fields) THEN <<>>
    ELSE LET v == structType.fields[i] IN
         (IF v.anon THEN deepFields(v.typ) ELSE <<v>>)
             \o deepFieldsFrom(structType, i + 1)

deepFields(reflectType) ==
    LET t == indirectType(reflectType) IN
    IF t.k = "struct" THEN deepFieldsFrom(t, 1) ELSE <<>>

-----------------------------------------------------------------------------
(* reflect.Type.FieldByName: Go's selector rule.  The struct is searched   *)
(* level by level through its embedded structs; the shallowest level that  *)
(* holds the name decides: one field of that name there is the answer, two *)
(* or more make the name ambiguous and nothing is found.  The answer is    *)
(* the index path to the field, <<>> for no field.                         *)

\* the type of the field that index path `path` reaches in struct type t
RECURSIVE TypeAt(_, _)
TypeAt(t, path) ==
    IF path = <<>> THEN t ELSE TypeAt(t.fields[Head(path)].typ, Tail(path))

LevelMatches(t, paths, name) ==
    UNION {{p \o <<i>> : i \in {j \in 1..Len(TypeAt(t, p).fields) :
                                   TypeAt(t, p).fields[j].name = name}} :
           p \in paths}

NextLevel(t, paths) ==
    UNION {{p \o <<i>> : i \in {j \in 1..Len(TypeAt(t, p).fields) :
                                   /\ TypeAt(t, p).fields[j].anon
                                   /\ TypeAt(t, p).fields[j].typ.k = "struct"}} :
           p \in paths}

RECURSIVE FieldPathFrom(_, _, _)
FieldPathFrom(t, paths, name) ==
    IF paths = {} THEN <<>>
    ELSE LET found == LevelMatches(t, paths, name) IN
         IF Cardinality(found) = 1 THEN CHOOSE p \in found : TRUE
         ELSE IF Cardinality(found) > 1 THEN <<>>
         ELSE FieldPathFrom(t, NextLevel(t, paths), name)

\* the index paths of the fields of deepFields(t), in its order
RECURSIVE DeepPaths(_, _, _)
DeepPaths(t, prefix, i) ==
    IF i > Len(t.fields) THEN <<>>
    ELSE (IF ~t.fields[i].anon THEN <<prefix \o <<i>>>>
          ELSE IF t.fields[i].typ.k = "struct"
               THEN DeepPaths(t.fields[i].typ, prefix \o <<i>>, 1)
               ELSE <<>>)
         \o DeepPaths(t, prefix, i + 1)

\* the name the field at path has
NameAt(t, path) ==
    TypeAt(t, SubSeq(path, 1, Len(path) - 1)).fields[path[Len(path)]].name

\* the first path of paths whose field has the name; <<>> for none
RECURSIVE FirstNamed(_, _, _, _)
FirstNamed(t, paths, i, name) ==
    IF i > Len(paths) THEN <<>>
    ELSE IF NameAt(t, paths[i]) = name THEN paths[i]
    ELSE FirstNamed(t, paths, i + 1, name)

\* a lookup that takes the first field of the name in the order of
\* deepFields
FieldPathFirst(t, name) ==
    IF t.k = "struct" THEN FirstNamed(t, DeepPaths(t, <<>>, 1), 1, name) ELSE <<>>

FieldPath(t, name) ==
    IF t.k = "struct" THEN FieldPathFrom(t, {<<>>}, name) ELSE <<>>

\* reflect.Value.FieldByIndex
RECURSIVE FieldAt(_, _)
FieldAt(x, path) ==
    IF path = <<>> THEN x ELSE FieldAt(x.v[Head(path)], Tail(path))

\* the struct x with the field at path replaced by y
RECURSIVE WithFieldAt(_, _, _)
WithFieldAt(x, path, y) ==
    IF path = <<>> THEN y
    ELSE Val(x.t, [x.v EXCEPT ![Head(path)] =
                      WithFieldAt(x.v[Head(path)], Tail(path), y)])

\* reflect.Value.FieldByName: the field, or the zero Value.
FieldByName(x, name) ==
    LET path == FieldPath(x.t, name) IN
    IF path = <<>> THEN Invalid ELSE FieldAt(x, path)

\* The Value reached by the path carries no flagRO: every field on the path
\* is exported, or is an embedded struct stepped through (reflect's
\* flagEmbedRO does not pass on to the fields below it).
RECURSIVE PathExported(_, _)
PathExported(t, path) ==
    \/ path = <<>>
    \/ /\ \/ t.fields[Head(path)].exported
          \/ t.fields[Head(path)].anon /\ Len(path) > 1
       /\ PathExported(t.fields[Head(path)].typ, Tail(path))

\* reflect.Value.CanSet of a field of an addressable struct (copier.go:81).
CanSet(t, path) == PathExported(t, path)

-----------------------------------------------------------------------------
(* Assignability and convertibility of the types of the catalogue (Go      *)
(* spec; reflect.Type.AssignableTo, ConvertibleTo).  The catalogue holds   *)
(* the predeclared scalars, named struct types and unnamed pointer, slice  *)
(* and map types; no interface types.                                      *)

\* identical types, or identical underlying types one of which is unnamed:
\* among these types, only identical ones.
AssignableTo(from, to) == from = to

\* reflect's haveIdenticalUnderlyingType (tags ignored)
IdenticalUnderlying(a, b) ==
    \/ a = b
    \/ /\ a.k = b.k
       /\ CASE a.k \in {"int16", "int8", "string"} -> TRUE
            [] a.k = "struct" ->
                  /\ Len(a.fields) = Len(b.fields)
                  /\ \A i \in 1..Len(a.fields) : a.fields[i] = b.fields[i]
            [] a.k \in {"ptr", "slice"} -> a.elem = b.elem
            [] OTHER -> FALSE

IsInt(t) == t.k \in {"int16", "int8"}

ConvertibleTo(from, to) ==
    \/ IsInt(from) /\ (IsInt(to) \/ to.k = "string")
    \/ IdenticalUnderlying(from, to)
    \/ /\ from.k = "ptr" /\ to.k = "ptr"
       /\ IdenticalUnderlying(from.elem[1], to.elem[1])

\* an integer wrapped to w bits, two's complement
Wrap(n, w) ==
    LET m == n % (2 ^ w) IN IF m >= 2 ^ (w - 1) THEN m - 2 ^ w ELSE m

Bits(t) == IF t.k = "int8" THEN 8 ELSE 16

\* string(rune(n)): the one-rune string, written U+n; U+65533 (the
\* replacement rune) outside the valid code points.
RuneString(n) ==
    IF /\ n >= 0 /\ n <= 1114111 /\ ~(n >= 55296 /\ n <= 57343)
    THEN "U+" \o ToString(n)
    ELSE "U+65533"

\* reflect.Value.Convert, for ConvertibleTo(x.t, t)
Convert(x, t) ==
    CASE IsInt(x.t) /\ IsInt(t) -> Val(t, Wrap(x.v, Bits(t)))
      [] IsInt(x.t) /\ t.k = "string" -> Val(t, RuneString(x.v))
      [] x.t.k = "ptr" /\ x.v # <<>> ->
            Val(t, <<Val(t.elem[1], x.v[1].v)>>)
      [] OTHER -> Val(t, x.v)

\* reflect.Type.String
RECURSIVE TypeString(_)
TypeString(t) ==
    CASE t.k = "ptr" -> "*" \o TypeString(t.elem[1])
      [] t.k = "slice" -> "[]" \o TypeString(t.elem[1])
      [] t.k = "map" -> "map[string]string"
      [] t.k = "chan" -> "chan int"
      [] t.k = "struct" -> "main." \o t.name
      [] OTHER -> t.name

\* reflect.Value.String: the string itself, "<T Value>" for any other kind.
ValueString(x) ==
    IF Kind(x) = "string" THEN x.v ELSE "<" \o TypeString(x.t) \o " Value>"

\* strings.HasSuffix
HasSuffix(s, suffix) ==
    /\ Len(s) >= Len(suffix)
    /\ SubSeq(s, Len(s) - Len(suffix) + 1, Len(s)) = suffix

-----------------------------------------------------------------------------
(* encoding/json.  Marshal gives [err, text]; the text is the JSON text    *)
(* Go writes (no spaces, map keys in order, exported fields of a struct,   *)
(* embedded structs inlined); a chan value cannot be encoded.              *)

Quote(s) == "\"" \o s \o "\""

\* two results [err, text] joined: a followed by b
Joined(a, sep, b) ==
    [err |-> a.err \/ b.err,
     text |-> a.text \o (IF b.text = "" THEN "" ELSE sep) \o b.text]
Enclosed(open, m, close) ==
    [err |-> m.err, text |-> open \o m.text \o close]
Encoded(text) == [err |-> FALSE, text |-> text]
Unsupported == [err |-> TRUE, text |-> ""]

RECURSIVE Marshal(_)
RECURSIVE MarshalList(_, _)
RECURSIVE MarshalPairs(_, _)
RECURSIVE MarshalFields(_, _, _)

\* the field of struct x that the i-th name of its flattened list fs
\* selects, as encoding/json writes it: nothing unless exported and the
\* first of its name
MarshalField(x, fs, i, path) ==
    IF \/ path = <<>>
       \/ ~PathExported(x.t, path)
       \/ \E j \in 1..(i - 1) : fs[j].name = fs[i].name
    THEN Encoded("")
    ELSE Enclosed(Quote(fs[i].name) \o ":", Marshal(FieldAt(x, path)), "")

Marshal(x) ==
    CASE IsInt(x.t) -> Encoded(ToString(x.v))
      [] Kind(x) = "string" -> Encoded(Quote(x.v))
      [] Kind(x) = "ptr" /\ x.v # <<>> -> Marshal(x.v[1])
      [] Kind(x) \in {"ptr", "slice", "map"} /\ IsNil(x) -> Encoded("null")
      [] Kind(x) = "slice" -> Enclosed("[", MarshalList(x.v.e, 1), "]")
      [] Kind(x) = "map" -> Enclosed("{", MarshalPairs(x.v.e, 1), "}")
      [] Kind(x) = "struct" -> Enclosed("{", MarshalFields(x, deepFields(x.t), 1), "}")
      [] OTHER -> Unsupported

MarshalList(xs, i) ==
    IF i > Len(xs) THEN Encoded("")
    ELSE Joined(Marshal(xs[i]), ",", MarshalList(xs, i + 1))

MarshalPairs(kvs, i) ==
    IF i > Len(kvs) THEN Encoded("")
    ELSE Joined(Encoded(Quote(kvs[i][1]) \o ":" \o Quote(kvs[i][2])), ",",
                MarshalPairs(kvs, i + 1))

MarshalFields(x, fs, i) ==
    IF i > Len(fs) THEN Encoded("")
    ELSE Joined(MarshalField(x, fs, i, FieldPath(x.t, fs[i].name)), ",",
                MarshalFields(x, fs, i + 1))

\* json.Unmarshal into a map[string]string or a []string, for a text
\* without spaces or escapes: [err, val].  null gives the nil map or slice;
\* any other text that is not an object (array) of strings is an error.
Ch(s, i) == IF i >= 1 /\ i <= Len(s) THEN SubSeq(s, i, i) ELSE ""

\* the index of the next double quote at or after i, 0 if none
RECURSIVE NextQuote(_, _)
NextQuote(s, i) ==
    IF i > Len(s) THEN 0
    ELSE IF Ch(s, i) = "\"" THEN i ELSE NextQuote(s, i + 1)

\* a quoted string starting at i: [ok, str, next]
ParseQuoted(s, i) ==
    LET j == NextQuote(s, i + 1) IN
    IF Ch(s, i) = "\"" /\ j > 0
    THEN [ok |-> TRUE, str |-> SubSeq(s, i + 1, j - 1), next |-> j + 1]
    ELSE [ok |-> FALSE, str |-> "", next |-> i]

RECURSIVE ParsePairs(_, _, _)
ParsePairs(s, i, acc) ==
    LET k == ParseQuoted(s, i)
        v == ParseQuoted(s, k.next + 1)
        more == Append(acc, <<k.str, v.str>>)
    IN IF ~k.ok \/ Ch(s, k.next) # ":" \/ ~v.ok THEN [err |-> TRUE, val |-> acc]
       ELSE IF Ch(s, v.next) = "}" /\ v.next = Len(s)
            THEN [err |-> FALSE, val |-> more]
       ELSE IF Ch(s, v.next) = "," THEN ParsePairs(s, v.next + 1, more)
       ELSE [err |-> TRUE, val |-> acc]

UnmarshalStringMap(s) ==
    IF s = "null" THEN [err |-> FALSE, val |-> NilMap]
    ELSE IF s = "{}" THEN [err |-> FALSE, val |-> Map(<<>>)]
    ELSE IF Ch(s, 1) # "{" THEN [err |-> TRUE, val |-> Map(<<>>)]
    ELSE LET r == ParsePairs(s, 2, <<>>) IN
         [err |-> r.err, val |-> Map(r.val)]

RECURSIVE ParseItems(_, _, _)
ParseItems(s, i, acc) ==
    LET v == ParseQuoted(s, i)
        more == Append(acc, Str(v.str))
    IN IF ~v.ok THEN [err |-> TRUE, val |-> acc]
       ELSE IF Ch(s, v.next) = "]" /\ v.next = Len(s)
            THEN [err |-> FALSE, val |-> more]
       ELSE IF Ch(s, v.next) = "," THEN ParseItems(s, v.next + 1, more)
       ELSE [err |-> TRUE, val |-> acc]

UnmarshalStringSlice(s) ==
    IF s = "null" THEN [err |-> FALSE, val |-> NilSlice(StringT)]
    ELSE IF s = "[]" THEN [err |-> FALSE, val |-> Slice(StringT, <<>>)]
    ELSE IF Ch(s, 1) # "[" THEN [err |-> TRUE, val |-> Slice(StringT, <<>>)]
    ELSE LET r == ParseItems(s, 2, <<>>) IN
         [err |-> r.err, val |-> Slice(StringT, r.val)]

-----------------------------------------------------------------------------
(* The methods the code calls on values it is given.  They are the         *)
(* caller's code: a method of the catalogue does what its declaration in   *)
(* the type says.                                                          *)

\* (*T).Scan(arg), T's impl.scan saying which arguments it accepts: "any",
\* "text" (strings only) or "none".  An accepted string is stored in the
\* field String.  [err, to]
ScanCall(to, arg) ==
    LET mode == to.t.impl.scan
        path == FieldPath(to.t, "String")
    IN IF mode = "none" \/ (mode = "text" /\ Kind(arg) # "string")
       THEN [err |-> TRUE, to |-> to]
       ELSE IF Kind(arg) = "string" /\ path # <<>>
            THEN [err |-> FALSE, to |-> WithFieldAt(to, path, arg)]
            ELSE [err |-> FALSE, to |-> to]

\* reflect.Value.MethodByName on a value of type t: with ptr, the method
\* set of *t (every method), without, that of t (value receivers only).
\* <<>> when there is none, else <<method>>.
MethodByName(t, ptr, name) ==
    LET ms == SelectSeq(t.methods, LAMBDA m : m.name = name /\ (ptr \/ ~m.ptrRecv))
    IN IF ms = <<>> THEN <<>> ELSE <<ms[1]>>

-----------------------------------------------------------------------------
(* set (copier.go:167).  to is the destination slot (always addressable    *)
(* and settable where Copy calls it), from the source Value, fromCanAddr   *)
(* from.CanAddr().  The result: ok, what set returns; to, the slot         *)
(* afterwards; panic, whether a reflect call panicked (ok is then          *)
(* meaningless); why, what made it return false; scans, the arguments of   *)
(* the Scan calls made.                                                    *)

SetResult(ok, to, why, scans) ==
    [ok |-> ok, to |-> to, panic |-> FALSE, why |-> why, scans |-> scans]
SetPanic(to, scans) ==
    [ok |-> FALSE, to |-> to, panic |-> TRUE, why |-> "panic", scans |-> scans]

IsContainer(from) == Kind(from) \in {"map", "slice"}

\* copier.go:208-217: vstr, the JSON text of a non-nil map or slice that
\* Marshal can encode, else ""
TextOf(m) == IF m.err THEN "" ELSE m.text
PrecomputedText(from) ==
    IF IsContainer(from) /\ ~IsNil(from) THEN TextOf(Marshal(from)) ELSE ""

\* copier.go:173-182: the slot the rest of set writes to, when to is a
\* pointer: its pointee, allocated if to is nil
Underlying(to) ==
    IF Kind(to) = "ptr"
    THEN (IF IsNil(to) THEN Zero(to.t.elem[1]) ELSE Elem(to))
    ELSE to

\* the type set tests convertibility against and converts to
\* (copier.go:170, :219: toType is to.Type() as set was entered)
ConversionTarget(to) == to.t

\* set with the conversion forgotten: success reported, nothing written
SetByConvertSkipped(cur, from, toType) ==
    SetResult(TRUE, cur, "", <<>>)

\* copier.go:219-220: to.Set(from.Convert(toType)), to being the slot cur;
\* reflect.Value.Set panics unless the converted value's type is assignable
\* to the slot's
SetByConvert(cur, from, toType) ==
    IF AssignableTo(toType, cur.t)
    THEN SetResult(TRUE, Convert(from, toType), "", <<>>)
    ELSE SetPanic(cur, <<>>)

\* Scan always handed the source itself
ScanArgumentRaw(from, vstr) == from

\* copier.go:231-235: what Scan is handed
ScanArgument(from, vstr) == IF vstr # "" THEN Str(vstr) ELSE from

\* copier.go:223-226: vstr in a package whose path ends in nulls
NullsText(from, nulls, vstr) ==
    IF nulls /\ vstr = "" /\ ~IsContainer(from) THEN ValueString(from) ELSE vstr

\* copier.go:232-238: the outcome of the Scan call r made with arg
Scanned(r, arg, from) ==
    SetResult(~r.err, r.to, IF r.err THEN "scan" ELSE "",
              <<[arg |-> arg, from |-> from]>>)

\* copier.go:227-238
ScanWith(cur, from, nulls, vstr) ==
    IF nulls /\ Len(vstr) < 1 THEN SetResult(TRUE, cur, "", <<>>)
    ELSE Scanned(ScanCall(cur, ScanArgument(from, vstr)),
                 ScanArgument(from, vstr), from)

\* copier.go:221-238: the Scanner branch
SetByScan(cur, from, toType) ==
    ScanWith(cur, from, HasSuffix(toType.pkg, "nulls"),
             NullsText(from, HasSuffix(toType.pkg, "nulls"), PrecomputedText(from)))

\* copier.go:247-262: the text of a Valuer unmarshalled into the slot;
\* parsed is Unmarshal's [err, val]
SetParsed(cur, parsed) ==
    IF parsed.err THEN SetResult(FALSE, cur, "json", <<>>)
    ELSE IF AssignableTo(parsed.val.t, cur.t) THEN SetResult(TRUE, parsed.val, "", <<>>)
    ELSE SetPanic(cur, <<>>)

\* copier.go:239-266: the Valuer branch
SetByValuer(cur, valuer, toKind) ==
    IF valuer.err \/ Kind(valuer.val) # "string" THEN SetResult(FALSE, cur, "valuer", <<>>)
    ELSE IF toKind = "string" THEN SetResult(TRUE, Val(cur.t, valuer.val.v), "", <<>>)
    ELSE IF toKind = "map" THEN SetParsed(cur, UnmarshalStringMap(valuer.val.v))
    ELSE IF toKind = "slice" /\ cur.t.elem[1].k = "string"
         THEN SetParsed(cur, UnmarshalStringSlice(valuer.val.v))
    ELSE SetResult(TRUE, cur, "", <<>>)

\* copier.go:267-268: the Stringer branch; SetString panics on a slot that
\* is not a string
SetByStringer(cur, text) ==
    IF Kind(cur) = "string" THEN SetResult(TRUE, Val(cur.t, text), "", <<>>)
    ELSE SetPanic(cur, <<>>)

\* copier.go:181: the result for the pointee, as the result for the pointer
Wrapped(to, r) ==
    IF Kind(to) = "ptr" THEN [r EXCEPT !.to = Val(to.t, <<r.to>>)] ELSE r

\* copier.go:200-206: the Valuer and the Stringer of an addressable source
ValuerOf(from, fromCanAddr) == IF fromCanAddr THEN from.t.impl.valuer ELSE <<>>
StringerOf(from, fromCanAddr) == IF fromCanAddr THEN from.t.impl.str ELSE <<>>

RECURSIVE set(_, _, _)

\* copier.go:184-273: set once to is resolved to the slot cur
SetSlot(cur, from, fromCanAddr, toType, toKind, valuer, stringer) ==
    IF cur.t.impl.ts THEN SetResult(TRUE, cur, "", <<>>)
    ELSE IF fromCanAddr /\ from.t.impl.ts THEN SetResult(TRUE, cur, "", <<>>)
    ELSE IF ConvertibleTo(from.t, toType) THEN SetByConvert(cur, from, toType)
    ELSE IF cur.t.impl.scan # "" THEN SetByScan(cur, from, toType)
    ELSE IF valuer # <<>> THEN SetByValuer(cur, valuer[1], toKind)
    ELSE IF stringer # <<>> THEN SetByStringer(cur, stringer[1])
    ELSE IF Kind(from) = "ptr" THEN set(cur, Elem(from), TRUE)
    ELSE SetResult(FALSE, cur, "unsupported", <<>>)

set(to, from, fromCanAddr) ==
    IF ~IsValid(from) THEN SetResult(TRUE, to, "", <<>>)
    ELSE IF Kind(to) = "ptr" /\ Kind(from) = "ptr" /\ IsNil(from)
         THEN SetResult(TRUE, Zero(to.t), "", <<>>)
    ELSE Wrapped(to, SetSlot(Underlying(to), from, fromCanAddr, ConversionTarget(to),
                             Kind(to), ValuerOf(from, fromCanAddr),
                             StringerOf(from, fromCanAddr)))

-----------------------------------------------------------------------------
(* Copy (copier.go:19).  The result: to, the caller's destination value    *)
(* afterwards; err, "nil", the error's text, or "panic"; scans and sets,   *)
(* the Scan calls and the set calls made (nested calls included); trace,   *)
(* the steps of this call in order.                                        *)

ErrUnaddressable == "copy to value is unaddressable"

\* a step: ev "set" (set returned true, or panicked), "nested" (set returned
\* false and Copy was called on the field; sub is that call's trace),
\* "tomethod" (a destination method was called), "method" (a source method
\* was called and its result set), "append"; name the field, i the element,
\* res the outcome, at the place of the step's set call in the sets of the
\* Copy call that made the step
Event(ev, name, i, res) ==
    [ev |-> ev, name |-> name, i |-> i, res |-> res, sub |-> <<>>, at |-> 0]
SetEvent(ev, name, i, res, at) ==
    [ev |-> ev, name |-> name, i |-> i, res |-> res, sub |-> <<>>, at |-> at]
Nested(name, i, res, sub, at) ==
    [ev |-> "nested", name |-> name, i |-> i, res |-> res, sub |-> sub, at |-> at]

SetEntry(to, from, fromCanAddr, r) ==
    [to |-> to, from |-> from, addr |-> fromCanAddr, ok |-> r.ok,
     panic |-> r.panic, why |-> r.why, after |-> r.to]

\* copier.go:49-54: the number of elements to produce
Amount(to, from) ==
    IF Kind(to) = "slice" /\ Kind(from) = "slice" THEN Len(from.v.e) ELSE 1

\* the append without the branch for a slice of pointers
AppendedByValue(to, dest) ==
    IF AssignableTo(dest.t, to.t.elem[1])
    THEN Val(to.t, [nil |-> FALSE, e |-> Append(to.v.e, dest)])
    ELSE to

\* copier.go:125-131: the destination slice with dest appended, as a
\* pointer or a value, whichever its element type takes
Appended(to, dest) ==
    IF AssignableTo(PtrT(dest.t), to.t.elem[1])
    THEN Val(to.t, [nil |-> FALSE, e |-> Append(to.v.e, PtrTo(dest))])
    ELSE IF AssignableTo(dest.t, to.t.elem[1])
         THEN Val(to.t, [nil |-> FALSE, e |-> Append(to.v.e, dest)])
         ELSE to

\* any method taken for a getter
IsGetterAny(m) == TRUE

\* copier.go:115: a method taking nothing and returning one value
IsGetter(m) == Len(m.in) = 0 /\ Len(m.out) = 1

\* copier.go:97: a method taking one parameter the field is assignable to
IsSetter(m, fromField) ==
    Len(m.in) = 1 /\ AssignableTo(fromField.t, m.in[1])

\* Copy testing the source before the destination
EntrySourceFirst(toValue, fromValue) ==
    IF ~IsValid(indirect(fromValue)) THEN "absent"
    ELSE IF ~IndirectCanAddr(toValue) THEN "unaddressable"
    ELSE IF AssignableTo(indirect(fromValue).t, indirect(toValue).t) THEN "assign"
    ELSE IF \/ indirectType(indirect(fromValue).t).k # "struct"
            \/ indirectType(indirect(toValue).t).k # "struct"
         THEN "noop"
    ELSE "fields"

\* Copy without the test of the source: an absent source goes on to the
\* field loop
EntryNoAbsent(toValue, fromValue) ==
    IF ~IndirectCanAddr(toValue) THEN "unaddressable"
    ELSE IF AssignableTo(indirect(fromValue).t, indirect(toValue).t) THEN "assign"
    ELSE IF ~IsValid(indirect(fromValue)) THEN "fields"
    ELSE IF \/ indirectType(indirect(fromValue).t).k # "struct"
            \/ indirectType(indirect(toValue).t).k # "struct"
         THEN "noop"
    ELSE "fields"

\* copier.go:27-47: what Copy does before any field is looked at:
\* "unaddressable", "absent", "assign", "noop", or "fields" to go on
Entry(toValue, fromValue) ==
    IF ~IndirectCanAddr(toValue) THEN "unaddressable"
    ELSE IF ~IsValid(indirect(fromValue)) THEN "absent"
    ELSE IF AssignableTo(indirect(fromValue).t, indirect(toValue).t) THEN "assign"
    ELSE IF \/ indirectType(indirect(fromValue).t).k # "struct"
            \/ indirectType(indirect(toValue).t).k # "struct"
         THEN "noop"
    ELSE "fields"

\* the error of the nested Copy dropped
Swallowed(err) == "nil"

\* copier.go:83-85: what Copy makes of the error of the nested Copy
Propagated(err) == err

\* the state the loops of one Copy call carry: dest, the element being
\* filled; err, "nil" while the call goes on
Acc(dest, err, scans, sets, trace) ==
    [dest |-> dest, err |-> err, scans |-> scans, sets |-> sets, trace |-> trace]

Stepped(acc, ev) == [acc EXCEPT !.trace = Append(@, ev)]
Panicked(acc, ev) == [acc EXCEPT !.err = "panic", !.trace = Append(@, ev)]

RECURSIVE Copy(_, _)

\* copier.go:83-85: after the nested Copy c on the field at toPath
AfterNested(acc, name, el, toPath, r, entry, c) ==
    Acc(WithFieldAt(acc.dest, toPath, Elem(c.to)), Propagated(c.err),
        acc.scans \o r.scans \o c.scans, Append(acc.sets, entry) \o c.sets,
        Append(acc.trace, Nested(name, el, c.err, c.trace, Len(acc.sets) + 1)))

\* copier.go:82-86: after set returned r for the field at toPath
AfterSet(acc, name, el, toPath, fromField, r, entry) ==
    IF r.panic \/ r.ok
    THEN Acc(WithFieldAt(acc.dest, toPath, r.to), IF r.panic THEN "panic" ELSE "nil",
             acc.scans \o r.scans, Append(acc.sets, entry),
             Append(acc.trace, SetEvent("set", name, el, IF r.panic THEN "panic" ELSE "ok",
                                        Len(acc.sets) + 1)))
    ELSE AfterNested(acc, name, el, toPath, r, entry, Copy(PtrTo(r.to), fromField))

\* copier.go:82: set and its entry in the log
SetField(acc, name, el, toPath, toField, fromField, fromCanAddr, r) ==
    AfterSet(acc, name, el, toPath, fromField, r,
             SetEntry(toField, fromField, fromCanAddr, r))

\* copier.go:89-99: the destination's method of the field's name
ToMethod(acc, name, el, fromField, toMethod) ==
    IF toMethod # <<>> /\ IsSetter(toMethod[1], fromField)
    THEN Stepped(acc, Event("tomethod", name, el, "called"))
    ELSE acc

\* copier.go:78-101: one source field
FieldStep(acc, name, el, fromField, fromCanAddr, toPath) ==
    IF ~IsValid(fromField) THEN acc
    ELSE IF toPath = <<>>
         THEN ToMethod(acc, name, el, fromField, MethodByName(acc.dest.t, TRUE, name))
    ELSE IF ~CanSet(acc.dest.t, toPath) THEN acc
    ELSE SetField(acc, name, el, toPath, FieldAt(acc.dest, toPath), fromField,
                  fromCanAddr, set(FieldAt(acc.dest, toPath), fromField, fromCanAddr))

\* copier.go:75-102: the source fields from the i-th of deepFields(fromType)
\* on; FieldByName panics on a source that is no struct
RECURSIVE FieldPass(_, _, _, _, _, _)
FieldPass(source, sourceCanAddr, fields, i, el, acc) ==
    IF i > Len(fields) \/ acc.err # "nil" THEN acc
    ELSE IF Kind(source) # "struct"
         THEN Panicked(acc, Event("field", fields[i].name, el, "panic"))
    ELSE FieldPass(source, sourceCanAddr, fields, i + 1, el,
                   FieldStep(acc, fields[i].name, el,
                             FieldByName(source, fields[i].name), sourceCanAddr,
                             FieldPath(acc.dest.t, fields[i].name)))

\* copier.go:117-120: the method's result set into the field at toPath
AfterGetter(acc, name, el, toPath, toField, ret, r) ==
    Acc(WithFieldAt(acc.dest, toPath, r.to), IF r.panic THEN "panic" ELSE "nil",
        acc.scans \o r.scans, Append(acc.sets, SetEntry(toField, ret, FALSE, r)),
        Append(acc.trace, SetEvent("method", name, el,
                                   IF r.panic THEN "panic" ELSE "called",
                                   Len(acc.sets) + 1)))

\* copier.go:106-122: one destination field
MethodStep(acc, name, el, fromMethod, toPath) ==
    IF /\ fromMethod # <<>>
       /\ IsGetter(fromMethod[1])
       /\ toPath # <<>>
       /\ CanSet(acc.dest.t, toPath)
    THEN AfterGetter(acc, name, el, toPath, FieldAt(acc.dest, toPath),
                     fromMethod[1].ret,
                     set(FieldAt(acc.dest, toPath), fromMethod[1].ret, FALSE))
    ELSE acc

\* copier.go:104-123: the destination fields from the i-th of
\* deepFields(toType) on; MethodByName panics on the zero Value
RECURSIVE MethodPass(_, _, _, _, _, _)
MethodPass(source, sourceCanAddr, fields, i, el, acc) ==
    IF i > Len(fields) \/ acc.err # "nil" THEN acc
    ELSE IF ~IsValid(source)
         THEN Panicked(acc, Event("method", fields[i].name, el, "panic"))
    ELSE MethodPass(source, sourceCanAddr, fields, i + 1, el,
                    MethodStep(acc, fields[i].name, el,
                               MethodByName(source.t, sourceCanAddr, fields[i].name),
                               FieldPath(acc.dest.t, fields[i].name)))

\* copier.go:59-72: the source of element i and whether it is addressable
\* (an element of a slice is), and the destination to fill
SourceOf(to, from, i) ==
    IF Kind(to) = "slice" /\ Kind(from) = "slice"
    THEN indirect(from.v.e[i])
    ELSE indirect(from)
SourceCanAddr(to, from, fromCanAddr, i) ==
    IF Kind(to) = "slice" /\ Kind(from) = "slice"
    THEN IsValid(indirect(from.v.e[i]))
    ELSE fromCanAddr
DestOf(to) ==
    IF Kind(to) = "slice" THEN indirect(Zero(indirectType(to.t))) ELSE indirect(to)

\* copier.go:125-131: the element m filled, joined to the destination to
Finished(to, el, m, grown) ==
    IF m.err # "nil"
    THEN Acc(IF Kind(to) = "slice" THEN to ELSE m.dest, m.err, m.scans, m.sets, m.trace)
    ELSE IF Kind(to) # "slice" THEN m
    ELSE Acc(grown, "nil", m.scans, m.sets,
             IF grown # to THEN Append(m.trace, Event("append", "", el, "ok"))
             ELSE m.trace)

\* copier.go:74-123: the two passes over one element
Passes(source, sourceCanAddr, fromType, toType, el, start) ==
    MethodPass(source, sourceCanAddr, deepFields(toType), 1, el,
               FieldPass(source, sourceCanAddr, deepFields(fromType), 1, el, start))

\* copier.go:56-132: element i
Element(to, from, fromCanAddr, i, acc, m) ==
    Finished(to, i, m, Appended(to, m.dest))

\* copier.go:56-132: the elements from the i-th on; acc.dest is the
\* resolved destination (to)
RECURSIVE Elements(_, _, _, _, _)
Elements(from, fromCanAddr, amount, i, acc) ==
    IF i > amount \/ acc.err # "nil" THEN acc
    ELSE Elements(from, fromCanAddr, amount, i + 1,
                  Element(acc.dest, from, fromCanAddr, i, acc,
                          Passes(SourceOf(acc.dest, from, i),
                                 SourceCanAddr(acc.dest, from, fromCanAddr, i),
                                 indirectType(from.t), indirectType(acc.dest.t), i,
                                 Acc(DestOf(acc.dest), "nil", acc.scans, acc.sets,
                                     acc.trace))))

Returned(to, err) ==
    [to |-> to, err |-> err, scans |-> <<>>, sets |-> <<>>, trace |-> <<>>]

\* copier.go:133: the outcome of the loop, for the caller
Completed(toValue, e) ==
    [to |-> WithIndirect(toValue, e.dest), err |-> e.err, scans |-> e.scans,
     sets |-> e.sets, trace |-> e.trace]

\* copier.go:19-134
CopyAs(entry, toValue, fromValue) ==
    IF entry = "unaddressable" THEN Returned(toValue, ErrUnaddressable)
    ELSE IF entry = "assign" THEN Returned(WithIndirect(toValue, indirect(fromValue)), "nil")
    ELSE IF entry \in {"absent", "noop"} THEN Returned(toValue, "nil")
    ELSE Completed(toValue,
                   Elements(indirect(fromValue), IndirectCanAddr(fromValue),
                            Amount(indirect(toValue), indirect(fromValue)), 1,
                            Acc(indirect(toValue), "nil", <<>>, <<>>, <<>>)))

Copy(toValue, fromValue) == CopyAs(Entry(toValue, fromValue), toValue, fromValue)

-----------------------------------------------------------------------------
(* The catalogue: the Go declarations the calls are drawn from.            *)

\* type User struct { Name string; Age int16; Nick string; note string }
\* func (User) FullName() string; func (*User) Role() string;
\* func (User) Level(int16) int8
User ==
    [StructT("User", <<Field("Name", StringT), Field("Age", Int16T),
                       Field("Nick", StringT), Unexported("note", StringT)>>)
     EXCEPT !.methods =
        <<Method("FullName", <<>>, <<StringT>>, FALSE, Str("Ann Lee")),
          Method("Role", <<>>, <<StringT>>, TRUE, Str("admin")),
          Method("Level", <<Int16T>>, <<Int8T>>, FALSE, Val(Int8T, 1))>>]

\* type Employee struct { Name string; Age int8; note, Extra, FullName,
\* Role string; Level int8 };  func (*Employee) Nick(string)
Employee ==
    [StructT("Employee", <<Field("Name", StringT), Field("Age", Int8T),
                           Unexported("note", StringT), Field("Extra", StringT),
                           Field("FullName", StringT), Field("Role", StringT),
                           Field("Level", Int8T)>>)
     EXCEPT !.methods = <<Method("Nick", <<StringT>>, <<>>, TRUE, Invalid)>>]

MkUser(name, age) == Struct(User, <<Str(name), Int16(age), Str("nick"), Str("n")>>)
Users == <<MkUser("Ann", 30), MkUser("", 200)>>

\* an Employee a caller has filled in before the call
OldEmployee ==
    Struct(Employee, <<Str("old"), Int8(1), Str("o"), Str("extra"),
                       Str("old name"), Str("old role"), Int8(9)>>)

\* struct { P T } for the pointer depths of P
S0 == StructT("S0", <<Field("P", Int16T)>>)
S1 == StructT("S1", <<Field("P", PtrT(Int16T))>>)
D0 == StructT("D0", <<Field("P", Int16T)>>)
D1 == StructT("D1", <<Field("P", PtrT(Int16T)), Field("Q", StringT)>>)
D2 == StructT("D2", <<Field("P", PtrT(PtrT(Int16T))), Field("Q", StringT)>>)
D3 == StructT("D3", <<Field("P", PtrT(PtrT(PtrT(Int16T)))), Field("Q", StringT)>>)
\* a struct holding a struct: the nested Copy recurses into it
SN == StructT("SN", <<Field("In", S1), Field("Q", StringT)>>)
DN == StructT("DN", <<Field("In", D3), Field("Q", StringT)>>)

\* type Timestamp struct { Seconds int16; Nanos int8 } with GetSeconds and
\* GetNanos: a pbTimestamp
Timestamp ==
    [StructT("Timestamp", <<Field("Seconds", Int16T), Field("Nanos", Int8T)>>)
     EXCEPT !.impl = [NoImpl EXCEPT !.ts = TRUE]]
TS  == StructT("TS", <<Field("At", Timestamp), Field("Name", StringT)>>)
TD  == StructT("TD", <<Field("At", Timestamp), Field("Name", StringT)>>)
TPS == StructT("TPS", <<Field("At", PtrT(Timestamp))>>)
TPD == StructT("TPD", <<Field("At", PtrT(Timestamp))>>)
Noon == Struct(Timestamp, <<Int16(12), Int8(0)>>)

\* embedded structs
E1 == StructT("E1", <<Field("Name", StringT)>>)
E2 == StructT("E2", <<Field("Name", StringT), Field("Age", Int16T)>>)
W  == StructT("W", <<Embedded(E1)>>)
\* struct { E1; E2 }: Name at depth 1 twice
Both   == StructT("Both", <<Embedded(E1), Embedded(E2)>>)
\* struct { E1; Name string }: Name at depth 1 and at depth 0
Shadow == StructT("Shadow", <<Embedded(E1), Field("Name", StringT)>>)
\* struct { W; E2 }: Name at depth 2 (first in declaration order) and 1
Deep   == StructT("Deep", <<Embedded(W), Embedded(E2)>>)
\* struct { E2; Nick string }: no name twice
Plain  == StructT("Plain", <<Embedded(E2), Field("Nick", StringT)>>)
\* a destination with an embedded struct
EmbDst == StructT("EmbDst", <<Embedded(E1), Field("Age", Int8T)>>)

MkE1(n) == Struct(E1, <<Str(n)>>)
MkE2(n, a) == Struct(E2, <<Str(n), Int16(a)>>)

\* Scanners: nulls.String of a package named nulls takes anything;
\* Text takes strings only; Never takes nothing.
NullsString ==
    [StructT("String", <<Field("String", StringT)>>)
     EXCEPT !.impl = [NoImpl EXCEPT !.scan = "any"],
            !.pkg = "github.com/gobuffalo/nulls"]
Text ==
    [StructT("Text", <<Field("String", StringT)>>)
     EXCEPT !.impl = [NoImpl EXCEPT !.scan = "text"]]
AnyText ==
    [StructT("AnyText", <<Field("String", StringT)>>)
     EXCEPT !.impl = [NoImpl EXCEPT !.scan = "any"]]
Never ==
    [StructT("Never", <<Field("String", StringT)>>)
     EXCEPT !.impl = [NoImpl EXCEPT !.scan = "none"]]

TagsOf(name, t) == StructT(name, <<Field("Tags", t)>>)
SMap   == TagsOf("SMap", MapT)
SList  == TagsOf("SList", SliceT(StringT))
SStr   == TagsOf("SStr", StringT)
SInt   == TagsOf("SInt", Int16T)
SChan  == TagsOf("SChan", SliceT(ChanT))
DNulls == TagsOf("DNulls", NullsString)
DText  == TagsOf("DText", Text)
DAny   == TagsOf("DAny", AnyText)
DNever == TagsOf("DNever", Never)
DPAny  == TagsOf("DPAny", PtrT(AnyText))
DList  == TagsOf("DList", SliceT(StringT))
DMap   == TagsOf("DMap", MapT)
DStr   == TagsOf("DStr", StringT)
DInt   == TagsOf("DInt", Int8T)
DPStr  == TagsOf("DPStr", PtrT(StringT))

\* Valuers and a Stringer: struct { Raw string } whose Value() returns the
\* value named, or an error
Valuer(name, err, val) ==
    [StructT(name, <<Field("Raw", StringT)>>)
     EXCEPT !.impl = [NoImpl EXCEPT !.valuer = <<[err |-> err, val |-> val]>>]]
VObj  == Valuer("VObj", FALSE, Str("{\"a\":\"b\"}"))
VArr  == Valuer("VArr", FALSE, Str("[\"x\",\"y\"]"))
VInt  == Valuer("VInt", FALSE, Int16(7))
VErr  == Valuer("VErr", TRUE, Str(""))
Label ==
    [StructT("Label", <<Field("Raw", StringT)>>)
     EXCEPT !.impl = [NoImpl EXCEPT !.str = <<"label">>]]

\* the sequences over the set S of length at most MaxLen
SeqsUpTo(S) == UNION {[1..n -> S] : n \in 0..MaxLen}

\* the destinations a caller passes: a pointer to a zeroed or filled value
\* (what indirect resolves to an addressable Value), and some that do not
\* resolve to one
Addressable ==
    <<PtrTo(Zero(Employee)), PtrTo(OldEmployee), PtrTo(PtrTo(Zero(Employee))),
      PtrTo(Zero(User)),
      PtrTo(Zero(D0)), PtrTo(Zero(D1)), PtrTo(Zero(D2)), PtrTo(Zero(D3)),
      PtrTo(Zero(DN)), PtrTo(Zero(TD)), PtrTo(Zero(TPD)), PtrTo(Zero(EmbDst)),
      PtrTo(Zero(DNulls)), PtrTo(Zero(DText)), PtrTo(Zero(DAny)),
      PtrTo(Zero(DNever)), PtrTo(Zero(DPAny)), PtrTo(Zero(DList)),
      PtrTo(Zero(DMap)), PtrTo(Zero(DStr)), PtrTo(Zero(DInt)), PtrTo(Zero(DPStr)),
      PtrTo(Int8(5)), PtrTo(Str("s")),
      PtrTo(NilSlice(Employee)), PtrTo(NilSlice(PtrT(Employee))),
      PtrTo(NilSlice(PtrT(PtrT(Employee)))), PtrTo(NilSlice(SliceT(Employee))),
      PtrTo(NilSlice(D3)), PtrTo(NilSlice(E1))>>

\* a destination slice a caller has already filled
Filled(n) == [j \in 1..n |-> OldEmployee]
FilledPtr(n) == [j \in 1..n |-> PtrTo(OldEmployee)]

Unaddressable ==
    <<Zero(Employee), OldEmployee, NilPtr(Employee), PtrTo(NilPtr(Employee)),
      Invalid, NilSlice(Employee), Int8(5)>>

\* the single values a caller passes as the source, by value or by pointer
Singles ==
    <<Users[1], Users[2], OldEmployee,
      Struct(S0, <<Int16(200)>>), Struct(S1, <<NilPtr(Int16T)>>),
      Struct(S1, <<PtrTo(Int16(7))>>),
      Struct(SN, <<Struct(S1, <<NilPtr(Int16T)>>), Str("q")>>),
      Struct(SN, <<Struct(S1, <<PtrTo(Int16(7))>>), Str("q")>>),
      Struct(TS, <<Noon, Str("t")>>), Struct(TPS, <<NilPtr(Timestamp)>>),
      Struct(TPS, <<PtrTo(Noon)>>),
      Struct(Both, <<MkE1("one"), MkE2("two", 2)>>),
      Struct(Shadow, <<MkE1("one"), Str("own")>>),
      Struct(Deep, <<Struct(W, <<MkE1("one")>>), MkE2("two", 2)>>),
      Struct(Plain, <<MkE2("two", 200), Str("nick")>>),
      Struct(SMap, <<NilMap>>), Struct(SMap, <<Map(<<>>)>>),
      Struct(SMap, <<Map(<<<<"a", "b">>>>)>>),
      Struct(SList, <<NilSlice(StringT)>>), Struct(SList, <<Slice(StringT, <<>>)>>),
      Struct(SList, <<Slice(StringT, <<Str("x"), Str("y")>>)>>),
      Struct(SStr, <<Str("")>>), Struct(SStr, <<Str("x")>>),
      Struct(SInt, <<Int16(65)>>),
      Struct(SChan, <<Slice(ChanT, <<>>)>>), Struct(SChan, <<Slice(ChanT, <<Zero(ChanT)>>)>>),
      Struct(TagsOf("SVObj", VObj), <<Struct(VObj, <<Str("r")>>)>>),
      Struct(TagsOf("SVArr", VArr), <<Struct(VArr, <<Str("r")>>)>>),
      Struct(TagsOf("SVInt", VInt), <<Struct(VInt, <<Str("r")>>)>>),
      Struct(TagsOf("SVErr", VErr), <<Struct(VErr, <<Str("r")>>)>>),
      Struct(TagsOf("SLabel", Label), <<Struct(Label, <<Str("r")>>)>>),
      Int16(200), Str("x")>>

\* the elements of the source slices a caller passes
UserElems == {Users[1], Users[2]}
UserPtrElems == {NilPtr(User), PtrTo(Users[1])}
S1Elems == {Struct(S1, <<NilPtr(Int16T)>>), Struct(S1, <<PtrTo(Int16(7))>>)}

\* the absent sources
Absent == <<Invalid, NilPtr(User), PtrTo(NilPtr(User))>>

-----------------------------------------------------------------------------
(* The state machine: a caller holds a destination, calls Copy once on it  *)
(* and a source, and holds the outcome.                                    *)

VARIABLES
    pc,        \* "ready" before the call, "done" after it
    toValue,   \* the destination argument (the caller's data behind it)
    before,    \* the destination argument as it was before the call
    fromValue, \* the source argument
    err,       \* what Copy returned: "nil", the error's text, or "panic"
    scans,     \* the Scan calls made
    sets,      \* the set calls made
    trace      \* the steps of the call

vars == <<pc, toValue, before, fromValue, err, scans, sets, trace>>

Destinations ==
    {Addressable[i] : i \in DOMAIN Addressable}
        \cup {Unaddressable[i] : i \in DOMAIN Unaddressable}
        \cup {PtrTo(Slice(Employee, Filled(n))) : n \in 0..MaxLen}
        \cup {PtrTo(Slice(PtrT(Employee), FilledPtr(n))) : n \in 0..MaxLen}

Init ==
    /\ pc = "ready"
    /\ toValue \in Destinations
    /\ before = toValue
    /\ fromValue = Invalid
    /\ err = "none"
    /\ scans = <<>>
    /\ sets = <<>>
    /\ trace = <<>>

\* the caller's state after the call returned r
Outcome(r) ==
    /\ toValue' = r.to
    /\ err' = r.err
    /\ scans' = r.scans
    /\ sets' = r.sets
    /\ trace' = r.trace

Call(source) ==
    /\ pc = "ready"
    /\ Outcome(Copy(toValue, source))
    /\ fromValue' = source
    /\ pc' = "done"
    /\ UNCHANGED before

\* Copy(&b, a)
CopyValue == \E i \in DOMAIN Singles : Call(Singles[i])

\* Copy(&b, &a)
CopyPointer == \E i \in DOMAIN Singles : Call(PtrTo(Singles[i]))

\* Copy(&bs, as) and Copy(&bs, &as), as a slice
CopySlice ==
    \/ \E s \in SeqsUpTo(UserElems), p \in BOOLEAN :
          Call(IF p THEN PtrTo(Slice(User, s)) ELSE Slice(User, s))
    \/ \E s \in SeqsUpTo(UserPtrElems) : Call(Slice(PtrT(User), s))
    \/ \E s \in SeqsUpTo(S1Elems) : Call(Slice(S1, s))

\* Copy(&b, nil)
CopyAbsent == \E i \in DOMAIN Absent : Call(Absent[i])

Next == CopyValue \/ CopyPointer \/ CopySlice \/ CopyAbsent

Spec == Init /\ [][Next]_vars

-----------------------------------------------------------------------------
(* The properties.                                                         *)

Called == pc = "done"
\* the source and the destination as Copy resolves them, and the
\* destination before the call
A  == indirect(fromValue)
B  == indirect(toValue)
B0 == indirect(before)

IsAddressable(x)   == \E i \in DOMAIN Addressable : x = Addressable[i]
IsUnaddressable(x) == \E i \in DOMAIN Unaddressable : x = Unaddressable[i]
IsAbsent(x)        == \E i \in DOMAIN Absent : x = Absent[i]

Names(t) == {deepFields(t)[i].name : i \in 1..Len(deepFields(t))}

\* x and y hold the same value: the same number, or the same value of one type
SameValue(x, y) ==
    \/ IsInt(x.t) /\ IsInt(y.t) /\ x.v = y.v
    \/ x.t = y.t /\ x.v = y.v

\* a pbTimestamp type, or a pointer to one
TimestampLike(t) == t.impl.ts \/ (t.k = "ptr" /\ t.elem[1].impl.ts)

\* a call Copy(&b, a) of two structs of different types that returned nil
StructToStruct ==
    /\ Called /\ err = "nil"
    /\ Kind(before) = "ptr" /\ Kind(A) = "struct" /\ Kind(B0) = "struct"
    /\ A.t # B0.t

\* the names both structs have a field of, the field types convertible
SharedNames ==
    {N \in Names(A.t) \cap Names(B0.t) :
        /\ FieldPath(A.t, N) # <<>>
        /\ FieldPath(B0.t, N) # <<>>
        /\ ConvertibleTo(FieldByName(A, N).t, FieldByName(B0, N).t)}

\* C1 as claimed: after Copy(&b, a) returns nil, b.N equals a.N for every
\* field name N of both whose field types are convertible, pointer-typed
\* and TimestampLike-typed fields included.
C1_SharedFieldsEqual ==
    StructToStruct =>
        \A N \in SharedNames : SameValue(FieldByName(B, N), FieldByName(A, N))

\* C1 as amended: after Copy(&b, a) returns nil, for every exported field
\* name N of both whose source field type is convertible to the destination
\* field type, neither type being a pbTimestamp or a pointer to one, and a
\* having no method N, b.N is a.N converted to the type of b.N.
C1_SharedFieldsConverted ==
    StructToStruct =>
        \A N \in SharedNames :
            (/\ PathExported(B0.t, FieldPath(B0.t, N))
             /\ ~TimestampLike(FieldByName(A, N).t)
             /\ ~TimestampLike(FieldByName(B0, N).t)
             /\ \A i \in 1..Len(A.t.methods) : A.t.methods[i].name # N)
            => FieldByName(B, N) = Convert(FieldByName(A, N), FieldByName(B0, N).t)

\* an int16 of 200 copied into an int8 field, read back as -56, beside a
\* string copied as it is
C1_Witness ==
    /\ StructToStruct
    /\ fromValue = Users[2] /\ before = PtrTo(Zero(Employee))
    /\ "Age" \in SharedNames
    /\ FieldByName(B, "Age") = Int8(-56)
    /\ FieldByName(B, "Name") = FieldByName(A, "Name")

\* C2: a destination that does not resolve to an addressable value makes
\* Copy return the unaddressable-destination error, whatever the source,
\* with nothing written and no set or Scan call made.
C2_UnaddressableFails ==
    (Called /\ IsUnaddressable(before)) =>
        /\ err = ErrUnaddressable
        /\ toValue = before
        /\ sets = <<>> /\ scans = <<>> /\ trace = <<>>

\* a nil *Employee as destination and a nil source: the error all the same
C2_Witness ==
    /\ Called
    /\ before = NilPtr(Employee) /\ fromValue = NilPtr(User)
    /\ err = ErrUnaddressable /\ toValue = before

\* C3 as claimed: for every destination, Copy with an absent source returns
\* nil and leaves the destination as it was.
C3_AbsentSourceNil ==
    (Called /\ IsAbsent(fromValue)) => (err = "nil" /\ toValue = before)

\* C3 as amended: for every destination that resolves to an addressable
\* value, Copy with an absent source returns nil and leaves the destination
\* as it was.
C3_AbsentSourceNilAddressable ==
    (Called /\ IsAbsent(fromValue) /\ ~IsUnaddressable(before)) =>
        (err = "nil" /\ toValue = before /\ sets = <<>> /\ trace = <<>>)

\* a nil *User copied into a filled Employee
C3_Witness ==
    /\ Called
    /\ fromValue = NilPtr(User) /\ before = PtrTo(OldEmployee)
    /\ err = "nil" /\ toValue = before

\* a call in replication mode: the destination a slice of U or of pointers
\* to U, the source a struct of another type T, or a slice of T or of
\* pointers to T
Replication ==
    /\ Called
    /\ Kind(before) = "ptr" /\ Kind(B0) = "slice"
    /\ indirectType(B0.t).k = "struct"
    /\ B0.t.elem[1] \in {indirectType(B0.t), PtrT(indirectType(B0.t))}
    /\ Kind(A) \in {"slice", "struct"}
    /\ indirectType(A.t).k = "struct"
    /\ indirectType(A.t) # indirectType(B0.t)
    /\ Kind(A) = "slice" =>
          A.t.elem[1] \in {indirectType(A.t), PtrT(indirectType(A.t))}

SourceCount == IF Kind(A) = "slice" THEN Len(A.v.e) ELSE 1

\* the i-th source element as a caller would pass it on its own: an element
\* of a slice by its address, the single source as it was passed
SourceElement(i) ==
    IF Kind(A) # "slice" THEN fromValue
    ELSE IF Kind(A.v.e[i]) = "ptr" THEN A.v.e[i]
    ELSE PtrTo(A.v.e[i])

\* the field mapping of a source: what Copy makes of a zeroed destination
\* struct and that source
FieldMapping(source) ==
    Elem(Copy(PtrTo(Zero(indirectType(B0.t))), source).to)

\* the j-th element of slice x, through its pointer if it is one
ElementOf(x, j) ==
    IF Kind(x.v.e[j]) = "ptr" THEN Elem(x.v.e[j]) ELSE x.v.e[j]

\* C4 as claimed: in replication mode, after Copy returns nil, the
\* destination has the source's length (1 for a single source) and its
\* element i is the field mapping of source element i, whatever the
\* destination held before.
C4_ReplicatedLength ==
    (Replication /\ err = "nil") =>
        /\ Len(B.v.e) = SourceCount
        /\ \A i \in 1..SourceCount :
              ElementOf(B, i) = FieldMapping(SourceElement(i))

\* C4 as amended: in replication mode, after Copy returns nil, the
\* destination holds the elements it held before, unchanged, followed by
\* one element per source element (one for a single source), the i-th of
\* them the field mapping of source element i.
C4_ReplicatedAppended ==
    (Replication /\ err = "nil") =>
        /\ Len(B.v.e) = Len(B0.v.e) + SourceCount
        /\ SubSeq(B.v.e, 1, Len(B0.v.e)) = B0.v.e
        /\ \A i \in 1..SourceCount :
              ElementOf(B, Len(B0.v.e) + i) = FieldMapping(SourceElement(i))

\* two users copied into a slice that held one employee: three elements,
\* the first the old one, the third mapped from the second user
C4_Witness ==
    /\ Replication /\ err = "nil"
    /\ before = PtrTo(Slice(Employee, Filled(1)))
    /\ fromValue = Slice(User, <<Users[1], Users[2]>>)
    /\ Len(B.v.e) = 3
    /\ B.v.e[1] = OldEmployee
    /\ FieldByName(B.v.e[3], "Age") = Int8(-56)
    /\ FieldByName(B.v.e[3], "Role") = Str("admin")

\* the index paths of the flattened fields of t that have the name
Occurrences(t, name) ==
    {DeepPaths(t, <<>>, 1)[i] : i \in {j \in 1..Len(DeepPaths(t, <<>>, 1)) :
                                         NameAt(t, DeepPaths(t, <<>>, 1)[j]) = name}}

\* those of them at the least embedding depth
Shallowest(t, name) ==
    {p \in Occurrences(t, name) :
        \A q \in Occurrences(t, name) : Len(p) <= Len(q)}

\* the one field of the name at the least depth; <<>> when there are several
Selected(t, name) ==
    IF Cardinality(Shallowest(t, name)) = 1
    THEN CHOOSE p \in Shallowest(t, name) : TRUE
    ELSE <<>>

\* the names of the source's flattened fields that the destination has one
\* field of, exported, which no timestamp rule and no source method touches
Flattened ==
    {N \in Names(A.t) :
        /\ Selected(B0.t, N) # <<>>
        /\ PathExported(B0.t, Selected(B0.t, N))
        /\ ~TimestampLike(TypeAt(B0.t, Selected(B0.t, N)))
        /\ \A p \in Occurrences(A.t, N) :
              /\ ~TimestampLike(TypeAt(A.t, p))
              /\ ConvertibleTo(TypeAt(A.t, p), TypeAt(B0.t, Selected(B0.t, N)))
        /\ \A i \in 1..Len(A.t.methods) : A.t.methods[i].name # N}

\* C5 as claimed: a field of an embedded struct is copied by name as a field
\* of the parent, and of several flattened source fields of one name the
\* first in flattening order is the one copied.
C5_FirstInOrderWins ==
    StructToStruct =>
        \A N \in Flattened :
            FieldAt(B, Selected(B0.t, N)) =
                Convert(FieldAt(A, FieldPathFirst(A.t, N)),
                        TypeAt(B0.t, Selected(B0.t, N)))

\* C5 as amended: a field of an embedded struct is copied by name as a field
\* of the parent, and of several flattened source fields of one name the one
\* at the least embedding depth is the one copied; when several are at that
\* depth none is, and the destination field keeps its value.
C5_ShallowestWins ==
    StructToStruct =>
        \A N \in Flattened :
            FieldAt(B, Selected(B0.t, N)) =
                IF Selected(A.t, N) # <<>>
                THEN Convert(FieldAt(A, Selected(A.t, N)),
                             TypeAt(B0.t, Selected(B0.t, N)))
                ELSE FieldAt(B0, Selected(B0.t, N))

\* struct { E1; Name string } copied into an Employee: Name is the parent's
\* own, not the embedded one that comes first in flattening order
C5_Witness ==
    /\ StructToStruct
    /\ fromValue = Struct(Shadow, <<MkE1("one"), Str("own")>>)
    /\ before = PtrTo(OldEmployee)
    /\ FieldPathFirst(Shadow, "Name") = <<1, 1>>
    /\ "Name" \in Flattened
    /\ FieldByName(B, "Name") = Str("own")

\* a source set can encode: a map or slice, not nil, that json.Marshal takes
Encodable(x) == IsContainer(x) /\ ~IsNil(x) /\ ~Marshal(x).err

\* the set calls that reach the Scanner branch: the slot a Scanner, the
\* source not convertible, no timestamp on either side
ReachScan ==
    {i \in DOMAIN sets :
        /\ IsValid(sets[i].from)
        /\ ~(Kind(sets[i].to) = "ptr" /\ Kind(sets[i].from) = "ptr" /\ IsNil(sets[i].from))
        /\ Underlying(sets[i].to).t.impl.scan # ""
        /\ ~Underlying(sets[i].to).t.impl.ts
        /\ ~(sets[i].addr /\ sets[i].from.t.impl.ts)
        /\ ~ConvertibleTo(sets[i].from.t, sets[i].to.t)}

\* C6 as claimed: a Scanner slot whose source is not convertible is handed,
\* for a source that is a map (nil, empty or populated) or a non-empty
\* slice, the JSON text of the source and never the container itself.
C6_ScanGetsJSON ==
    Called =>
        \A i \in DOMAIN scans :
            (\/ Kind(scans[i].from) = "map"
             \/ Kind(scans[i].from) = "slice" /\ Len(scans[i].from.v.e) > 0)
            => (Kind(scans[i].arg) = "string" /\ scans[i].arg # scans[i].from)

\* C6 as amended: a Scanner slot whose source is not convertible is handed,
\* for a source that is a map or a slice, not nil, which JSON can encode,
\* the JSON text of the source; a nil map or slice, and one JSON cannot
\* encode, is handed to Scan as it is.
C6_ScanGetsJSONIfEncoded ==
    Called =>
        /\ \A i \in DOMAIN scans :
              IsContainer(scans[i].from) =>
                  scans[i].arg = IF Encodable(scans[i].from)
                                 THEN Str(Marshal(scans[i].from).text)
                                 ELSE scans[i].from
        /\ \A i \in ReachScan :
              Encodable(sets[i].from) =>
                  \E j \in DOMAIN scans :
                      /\ scans[j].from = sets[i].from
                      /\ scans[j].arg = Str(Marshal(sets[i].from).text)

\* a populated map copied into a Scanner field: Scan was handed the text
\* {"a":"b"} and the field holds it
C6_Witness ==
    /\ Called /\ err = "nil"
    /\ fromValue = Struct(SMap, <<Map(<<<<"a", "b">>>>)>>)
    /\ before = PtrTo(Zero(DAny))
    /\ ReachScan = {1}
    /\ scans = <<[arg |-> Str("{\"a\":\"b\"}"), from |-> Map(<<<<"a", "b">>>>)]>>
    /\ FieldByName(FieldByName(B, "Tags"), "String") = Str("{\"a\":\"b\"}")

\* a call that goes field by field: the destination addressable, the source
\* there and not assignable to it, both resolving to struct types
FieldByField ==
    /\ Called
    /\ Kind(before) = "ptr" /\ IsValid(B0) /\ IsValid(A)
    /\ A.t # B0.t
    /\ indirectType(A.t).k = "struct"
    /\ indirectType(B0.t).k = "struct"

\* the methods of t that take nothing and return one value
Getters(t) ==
    {t.methods[i].name : i \in {j \in 1..Len(t.methods) :
                                  /\ Len(t.methods[j].in) = 0
                                  /\ Len(t.methods[j].out) = 1}}

\* the index paths of the destination's flattened fields whose name no
\* flattened source field and no such source method has
Unmatched ==
    UNION {Occurrences(indirectType(B0.t), N) :
             N \in Names(B0.t) \ (Names(A.t) \cup Getters(indirectType(A.t)))}

C8_SetterNeverRaises ==
    Called =>
        \A i \in DOMAIN sets :
            /\ ~sets[i].panic
            /\ (/\ Kind(sets[i].to) = "ptr"
                /\ sets[i].from.t = sets[i].to.t
                /\ ~IsNil(sets[i].from)
                /\ ~TimestampLike(sets[i].to.t))
               => (sets[i].ok /\ Elem(sets[i].after) = Elem(sets[i].from))

\* C9: in the field pass a set that returns false is followed by Copy on the
\* field's address and the source field's value; when that call returns an
\* error it is the last step of the enclosing Copy, which returns that
\* error, and a destination slice holds what it held plus the elements
\* finished before; a Scan, Valuer, JSON or conversion failure in set is not
\* what Copy returns.
C9_NestedErrorAborts ==
    Called =>
        /\ \A k \in DOMAIN trace :
              /\ trace[k].ev = "set" =>
                    (sets[trace[k].at].ok \/ sets[trace[k].at].panic)
              /\ trace[k].ev = "nested" =>
                    /\ ~sets[trace[k].at].ok /\ ~sets[trace[k].at].panic
                    /\ trace[k].res = Copy(PtrTo(sets[trace[k].at].after),
                                           sets[trace[k].at].from).err
                    /\ trace[k].res # "nil" =>
                          /\ k = Len(trace)
                          /\ err = trace[k].res
                          /\ Kind(B0) = "slice" =>
                                /\ Len(B.v.e) = Len(B0.v.e) + trace[k].i - 1
                                /\ SubSeq(B.v.e, 1, Len(B0.v.e)) = B0.v.e
        /\ (\E i \in DOMAIN sets : ~sets[i].ok /\ ~sets[i].panic) =>
              err \in {"nil", ErrUnaddressable}

\* struct { In S1; Q string } into struct { In D3; Q string }: set fails on
\* In, the nested Copy fails on In.P with the unaddressable error, which the
\* call returns; Q, the next field, is not copied
C9_Witness ==
    /\ Called
    /\ fromValue = Struct(SN, <<Struct(S1, <<PtrTo(Int16(7))>>), Str("q")>>)
    /\ before = PtrTo(Zero(DN))
    /\ err = ErrUnaddressable
    /\ Len(trace) = 1 /\ trace[1].ev = "nested" /\ trace[1].name = "In"
    /\ trace[1].res = ErrUnaddressable
    /\ trace[1].sub[Len(trace[1].sub)].res = ErrUnaddressable
    /\ FieldByName(B, "Q") = Str("")

\* C10: a Copy call ends in nil or in the abort outcome, the call whose
\* source resolves to a slice and whose destination resolves to a single
\* struct included.
C10_SliceIntoStructEnds ==
    (Called /\ Kind(before) = "ptr" /\ Kind(A) = "slice" /\ Kind(B0) = "struct")
        => err \in {"nil", ErrUnaddressable}

====
